---------------------------- MODULE Spec2Model ----------------------------
(***************************************************************************)
(* A model of binance_sol_price_fetch.py: the fine-then-coarse download    *)
(* orchestration (get_all_solana_data), the downloader adapter             *)
(* (try_download_resolution) and the file locator and merger               *)
(* (process_downloaded_data), run from the script's entry point.           *)
(*                                                                         *)
(* The external collaborators (BinanceDataDumper, the file system, pandas' *)
(* read_csv / to_datetime / sort_values / to_csv) are modelled by their    *)
(* documented outcomes; where the outcome is not fixed by the code (does a *)
(* call raise, what is on disk, in which order equal keys come out of an   *)
(* unstable sort) every outcome is a nondeterministic choice.              *)
(***************************************************************************)
EXTENDS Integers, Sequences, FiniteSets, TLC

\* ------------------------------------------------------------------ bounds
\* Rows per input file.
MaxRows == 1
\* Open-time values (epoch milliseconds) range over 1..MaxTime.
MaxTime == 2

\* ------------------------------------------------------- program constants
\* datetime.date(2020, 8, 11), as a proleptic Gregorian ordinal.
FallbackDate == 737648
\* `total_days > 30` of the 1s advisory.
WarnDays == 30
\* pd.to_datetime(..., unit='ms') yields datetime64[ns]: nanoseconds per ms.
NsPerMs == 1000000

Frequencies == {"1s", "1m"}

\* ------------------------------------------------------------------- cells
\* A cell of a table.  k: "num" a number, "nan" a missing value, "str" a
\* text that parses neither as a number nor as a time, "ts" a timestamp
\* (v nanoseconds since the epoch), "nat" the missing timestamp.
Num(n) == [k |-> "num", v |-> n]
NaN == [k |-> "nan", v |-> 0]
Str == [k |-> "str", v |-> 0]
Ts(n) == [k |-> "ts", v |-> n]
NaT == [k |-> "nat", v |-> 0]

price_columns == <<"Open", "High", "Low", "Close", "Volume">>
AllCols == {"Open time", "Close time"} \cup {price_columns[i] : i \in 1..Len(price_columns)}

\* ------------------------------------------------------------------- paths
\* A path is the sequence of its components.  Rank orders the components
\* of the model's universe as Python orders the strings (code points).
Rank(c) ==
    CASE c = "1m" -> 1
      [] c = "1s" -> 2
      [] c = "SOLUSDT" -> 3
      [] c = "a.csv" -> 4
      [] c = "b.csv" -> 5
      [] c = "c.csv" -> 6
      [] c = "daily" -> 7
      [] c = "extra" -> 8
      [] c = "klines" -> 9
      [] c = "monthly" -> 10
      [] c = "notes.txt" -> 11
      [] c = "solana_data_1m" -> 12
      [] c = "solana_data_1s" -> 13
      [] c = "spot" -> 14
      [] c = "sub" -> 15

\* p < q as Python compares the joined strings.
RECURSIVE PathLess(_, _)
PathLess(p, q) ==
    IF p = <<>> THEN q # <<>>
    ELSE IF q = <<>> THEN FALSE
    ELSE IF Head(p) = Head(q) THEN PathLess(Tail(p), Tail(q))
    ELSE Rank(Head(p)) < Rank(Head(q))

IsPrefix(d, p) == Len(d) <= Len(p) /\ SubSeq(p, 1, Len(d)) = d
Parent(p) == SubSeq(p, 1, Len(p) - 1)
Basename(p) == p[Len(p)]
\* file.endswith('.csv')
EndsWithCsv(name) == name \in {"a.csv", "b.csv", "c.csv"}

\* data_dir = f"./solana_data_{frequency}"
data_dir(f) == IF f = "1s" THEN <<"solana_data_1s">> ELSE <<"solana_data_1m">>
\* os.path.join(data_dir, "spot", "daily", "klines", "SOLUSDT", frequency)
DailyDir(f) == data_dir(f) \o <<"spot", "daily", "klines", "SOLUSDT", f>>
\* os.path.join(data_dir, "spot", "monthly", "klines", "SOLUSDT", frequency)
MonthlyDir(f) == data_dir(f) \o <<"spot", "monthly", "klines", "SOLUSDT", f>>

\* sorted(csv_files): the paths of the set S in ascending order.
RECURSIVE SortedPaths(_)
SortedPaths(S) ==
    IF S = {} THEN <<>>
    ELSE LET m == CHOOSE x \in S : \A y \in S \ {x} : PathLess(x, y)
         IN  <<m>> \o SortedPaths(S \ {m})

Range(s) == {s[i] : i \in 1..Len(s)}

\* -------------------------------------------------------------- the disk
\* disk.dirs: the directories that exist; disk.files: the content of each
\* file; disk.scan: the order in which the file system lists a directory's
\* entries (os.walk yields them as os.scandir does: "asc" by name or "desc").
\* A file's content: ok = FALSE when pd.read_csv raises on it, else the
\* header (cols) and the rows (each a function from cols to cells).

\* os.path.exists(p)
Exists(disk, p) == p \in disk.dirs \/ p \in DOMAIN disk.files

\* The entries of the set S of paths in the listing order of the disk.
RECURSIVE Listing(_, _)
Listing(S, scan) ==
    IF S = {} THEN <<>>
    ELSE LET m == CHOOSE x \in S : \A y \in S \ {x} :
                      IF scan = "asc" THEN PathLess(x, y) ELSE PathLess(y, x)
         IN  <<m>> \o Listing(S \ {m}, scan)

SubDirs(disk, d) == {x \in disk.dirs : Len(x) = Len(d) + 1 /\ IsPrefix(d, x)}
FilesIn(disk, d) == {p \in DOMAIN disk.files : Parent(p) = d}

\* os.walk(top): the directories in the order they are yielded (top-down);
\* nothing when top is not a directory.
RECURSIVE Walk(_, _), WalkAll(_, _)
Walk(disk, top) ==
    IF top \notin disk.dirs THEN <<>>
    ELSE <<top>> \o WalkAll(disk, Listing(SubDirs(disk, top), disk.scan))
WalkAll(disk, tops) ==
    IF tops = <<>> THEN <<>>
    ELSE Walk(disk, Head(tops)) \o WalkAll(disk, Tail(tops))

\* csv_files = [f for f in files if f.endswith('.csv')] of one directory
CsvIn(disk, d) ==
    Listing({p \in FilesIn(disk, d) : EndsWithCsv(Basename(p))}, disk.scan)

\* The first root of os.walk(data_dir) whose csv_files is not empty, or
\* `other` when the loop ends without a break.
RECURSIVE FirstWithCsv(_, _, _)
FirstWithCsv(disk, roots, other) ==
    IF roots = <<>> THEN other
    ELSE IF CsvIn(disk, Head(roots)) # <<>> THEN Head(roots)
    ELSE FirstWithCsv(disk, Tail(roots), other)

\* LocateDir with the two directory checks in the other order.
LocateDir_MonthlyFirst(disk, f) ==
    IF Exists(disk, MonthlyDir(f)) THEN MonthlyDir(f)
    ELSE IF Exists(disk, DailyDir(f)) THEN DailyDir(f)
    ELSE FirstWithCsv(disk, Walk(disk, data_dir(f)), DailyDir(f))

\* os.path.exists never raises and os.walk ignores scan errors (onerror is
\* None), so the bare except of the locator is dead for every disk.
LocateDir(disk, f) ==
    IF Exists(disk, DailyDir(f)) THEN DailyDir(f)
    ELSE IF Exists(disk, MonthlyDir(f)) THEN MonthlyDir(f)
    ELSE FirstWithCsv(disk, Walk(disk, data_dir(f)), MonthlyDir(f))

\* The csv_files list built by the second os.walk (in walk order).
RECURSIVE CollectCsv(_, _)
CollectCsv(disk, roots) ==
    IF roots = <<>> THEN <<>>
    ELSE CsvIn(disk, Head(roots)) \o CollectCsv(disk, Tail(roots))

\* ------------------------------------------------------------ the merger
\* df = pd.read_csv(file_path): the table of a file that loads.  The table
\* carries its path and each row the path and line it was read from (src,
\* line): they are not columns, they record where a row comes from.
LoadFrame(path, content) ==
    [path |-> path, cols |-> content.cols,
     rows |-> [i \in 1..Len(content.rows) |->
                  [cells |-> content.rows[i], src |-> path, line |-> i]]]

\* LoadAll with the loop ended by the first file that does not load.
RECURSIVE LoadAll_StopAtError(_, _)
LoadAll_StopAtError(disk, paths) ==
    IF paths = <<>> THEN <<>>
    ELSE LET c == disk.files[Head(paths)]
         IN  IF c.ok
             THEN <<LoadFrame(Head(paths), c)>> \o LoadAll_StopAtError(disk, Tail(paths))
             ELSE <<>>

\* The loop over sorted(csv_files): a file on which read_csv raises is
\* reported and skipped, the others are appended to dataframes in order.
RECURSIVE LoadAll(_, _)
LoadAll(disk, paths) ==
    IF paths = <<>> THEN <<>>
    ELSE LET c == disk.files[Head(paths)]
         IN  (IF c.ok THEN <<LoadFrame(Head(paths), c)>> ELSE <<>>)
             \o LoadAll(disk, Tail(paths))

RECURSIVE UnionCols(_)
UnionCols(dfs) ==
    IF dfs = <<>> THEN {} ELSE Head(dfs).cols \cup UnionCols(Tail(dfs))

\* A row aligned on the columns cols: a column its table lacks holds NaN.
Reindex(row, cols) ==
    [row EXCEPT !.cells =
        [c \in cols |-> IF c \in DOMAIN row.cells THEN row.cells[c] ELSE NaN]]

RECURSIVE ConcatRows(_, _)
ConcatRows(dfs, cols) ==
    IF dfs = <<>> THEN <<>>
    ELSE [i \in 1..Len(Head(dfs).rows) |-> Reindex(Head(dfs).rows[i], cols)]
         \o ConcatRows(Tail(dfs), cols)

\* pd.concat(dataframes, ignore_index=True)
Concat(dfs) == [cols |-> UnionCols(dfs), rows |-> ConcatRows(dfs, UnionCols(dfs))]

\* pd.to_datetime(column, unit='ms') raises KeyError when the column is
\* absent (the subscript) and ValueError on a cell that is no number.
DatetimeError(df, col) ==
    IF col \notin df.cols THEN "KeyError"
    ELSE IF \E i \in 1..Len(df.rows) : df.rows[i].cells[col].k = "str" THEN "ValueError"
    ELSE "none"

ToDatetimeCell(c) ==
    IF c.k = "num" THEN Ts(c.v * NsPerMs)
    ELSE IF c.k = "nan" THEN NaT
    ELSE c

\* combined_df[col] = pd.to_datetime(combined_df[col], unit='ms')
ToDatetime(df, col) ==
    [df EXCEPT !.rows =
        [i \in 1..Len(df.rows) |->
            [df.rows[i] EXCEPT !.cells[col] = ToDatetimeCell(df.rows[i].cells[col])]]]

\* The indices of the set idx in ascending order.
RECURSIVE Ascending(_)
Ascending(idx) ==
    IF idx = {} THEN <<>>
    ELSE LET m == CHOOSE i \in idx : \A j \in idx : i <= j
         IN  <<m>> \o Ascending(idx \ {m})

\* All the orders of the elements of the set S.
RECURSIVE Perms(_)
Perms(S) ==
    IF S = {} THEN {<<>>}
    ELSE UNION {{<<x>> \o p : p \in Perms(S \ {x})} : x \in S}

\* The index orders sort_values('Open time') can produce for the indices
\* idx of rows with a timestamp: ascending keys; kind defaults to
\* 'quicksort', which is not stable, so rows of equal key come in any order.
RECURSIVE KeyOrders(_, _)
KeyOrders(rows, idx) ==
    IF idx = {} THEN {<<>>}
    ELSE LET key(i) == rows[i].cells["Open time"].v
             lo == CHOOSE i \in idx : \A j \in idx : key(i) <= key(j)
             grp == {i \in idx : key(i) = key(lo)}
         IN  UNION {{g \o r : r \in KeyOrders(rows, idx \ grp)} : g \in Perms(grp)}

\* sort_values('Open time').reset_index(drop=True): the rows with a key in
\* key order, then (na_position='last') the NaT rows in their former order.
SortOutcomes(df) ==
    LET n == Len(df.rows)
        isNaT(i) == df.rows[i].cells["Open time"].k = "nat"
        last == Ascending({i \in 1..n : isNaT(i)})
    IN  {[df EXCEPT !.rows = [k \in 1..n |-> df.rows[(o \o last)[k]]]] :
            o \in KeyOrders(df.rows, {i \in 1..n : ~isNaT(i)})}

\* DropDuplicates left out: every row stays.
DropDuplicates_KeepAll(df) == df

\* drop_duplicates(subset=['Open time'], keep='first'): a row stays when no
\* earlier row has its open time (missing values count as equal).
DropDuplicates(df) ==
    LET keep == {i \in 1..Len(df.rows) :
                    \A j \in 1..(i - 1) :
                        df.rows[j].cells["Open time"] # df.rows[i].cells["Open time"]}
    IN  [df EXCEPT !.rows = [k \in 1..Cardinality(keep) |-> df.rows[Ascending(keep)[k]]]]

\* pd.to_numeric(column, errors='coerce'): what does not parse becomes NaN.
ToNumericCell(c) == IF c.k = "num" THEN c ELSE NaN

ToNumeric(df, col) ==
    [df EXCEPT !.rows =
        [i \in 1..Len(df.rows) |->
            [df.rows[i] EXCEPT !.cells[col] = ToNumericCell(df.rows[i].cells[col])]]]

\* The loop over price_columns from its i-th column on; the subscript
\* raises KeyError at the first column the table lacks.
RECURSIVE ConvertPrices(_, _)
ConvertPrices(df, i) ==
    IF i > Len(price_columns) THEN [err |-> "none", df |-> df]
    ELSE IF price_columns[i] \notin df.cols THEN [err |-> "KeyError", df |-> df]
    ELSE ConvertPrices(ToNumeric(df, price_columns[i]), i + 1)

\* ------------------------------------------- what the run can meet on disk
SeqsUpTo(S, n) == UNION {[1..k -> S] : k \in 0..n}

\* A well-formed kline row opened at millisecond t.
GoodCells(t) == [c \in AllCols |-> Num(t)]
GoodRows == {GoodCells(t) : t \in 1..MaxTime}
\* Rows with one irregular cell: no open time, an open time or a close
\* time that is no number, a price that is no number.
OddRows ==
    {[GoodCells(1) EXCEPT !["Open time"] = NaN],
     [GoodCells(1) EXCEPT !["Open time"] = Str],
     [GoodCells(1) EXCEPT !["Close time"] = Str],
     [GoodCells(1) EXCEPT !["Low"] = Str]}

\* Headers that lack one of the columns the merger subscripts.
ShortHeaders ==
    {AllCols \ {"Open time"}, AllCols \ {"Close time"}, AllCols \ {"Volume"}}

Unreadable == [ok |-> FALSE, cols |-> {}, rows |-> <<>>]
Table(cols, rows) ==
    [ok |-> TRUE, cols |-> cols,
     rows |-> [i \in 1..Len(rows) |-> [c \in cols |-> rows[i][c]]]]

Contents ==
    {Unreadable}
    \cup {Table(AllCols, r) : r \in SeqsUpTo(GoodRows \cup OddRows, MaxRows)}
    \cup {Table(h, r) : h \in ShortHeaders, r \in SeqsUpTo(GoodRows, MaxRows)}

\* All the directories from root down to the paths of S.
DirsDownTo(S, root) ==
    UNION {{SubSeq(p, 1, k) : k \in Len(root)..Len(p)} : p \in S} \cup {root}

\* Disks that vary the content of the files of the daily directory: a.csv
\* and b.csv hold any content; c.csv, when there, holds one row.
ContentDisks(f) ==
    LET a == DailyDir(f) \o <<"a.csv">>
        b == DailyDir(f) \o <<"b.csv">>
        c == DailyDir(f) \o <<"c.csv">>
    IN  {[dirs |-> DirsDownTo({DailyDir(f)}, data_dir(f)),
          files |-> [p \in {a, b} \cup more |->
                        IF p = a THEN ca ELSE IF p = b THEN cb
                        ELSE Table(AllCols, <<GoodCells(1)>>)],
          scan |-> "asc"] :
            ca \in Contents, cb \in Contents, more \in {{}, {c}}}

\* Disks that vary the layout: which directories exist, where the files
\* are, in which order a directory is listed.  Each file holds one row.
LayoutFiles(f) ==
    {DailyDir(f) \o <<"a.csv">>, DailyDir(f) \o <<"notes.txt">>,
     DailyDir(f) \o <<"sub", "b.csv">>, MonthlyDir(f) \o <<"b.csv">>,
     data_dir(f) \o <<"extra", "a.csv">>, data_dir(f) \o <<"spot", "b.csv">>,
     data_dir(f) \o <<"notes.txt">>}

LayoutDisks(f) ==
    {[dirs |-> DirsDownTo({Parent(p) : p \in F} \cup E, data_dir(f)),
      files |-> [p \in F |-> Table(AllCols, <<GoodCells(1)>>)],
      scan |-> sc] :
        F \in SUBSET LayoutFiles(f), E \in SUBSET {DailyDir(f), MonthlyDir(f)},
        sc \in {"asc", "desc"}}

Disks(f) == ContentDisks(f) \cup LayoutDisks(f)
NoDisk == [dirs |-> {}, files |-> <<>>, scan |-> "asc"]

\* ------------------------------------------------------------- the state
VARIABLES
    pc,            \* where the run is
    try_seconds,   \* the argument of get_all_solana_data
    frequency,     \* the argument of the call in progress
    success,       \* the value try_download_resolution returned
    td,            \* the locals of try_download_resolution; after dump_data
                   \* only the two flags, until the caller resumes
    dump_outcome,  \* history: how dump_data ended in the last adapter call
    disk,          \* the download directory as the download left it
    actual_dir, csv_files, dataframes, combined_df,
                   \* the locals of process_downloaded_data
    result,        \* the value process_downloaded_data returned
    df,            \* the value get_all_solana_data returned to the script
    output,        \* the output file of each frequency
    exc,           \* the exception that left the script uncaught, if any
    attempts,      \* history: the calls of try_download_resolution, each
                   \* with its frequency and what it returned
    merges         \* history: the frequencies process_downloaded_data got

vars == <<pc, try_seconds, frequency, success, td, dump_outcome, disk, actual_dir, csv_files,
          dataframes, combined_df, result, df, output, exc, attempts, merges>>

None == [some |-> FALSE, cols |-> {}, rows |-> <<>>]
Some(t) == [some |-> TRUE, cols |-> t.cols, rows |-> t.rows]
NoTable == [cols |-> {}, rows |-> <<>>]
Idle == [start_date |-> 0, end_date |-> 0, total_days |-> 0,
        warned |-> FALSE, min_date_failed |-> FALSE]
\* An output file nobody wrote: absent, or as an earlier run left it.
Untouched == [state |-> "untouched", rows |-> <<>>]

\* datetime.date.today(): days on either side of the advisory's threshold
\* when the start is the fallback date.
Todays == {FallbackDate + WarnDays, FallbackDate + WarnDays + 1}
\* What get_min_start_date_for_ticker can return for a run on `today`.
MinDates(today) == {today - WarnDays - 1, today - WarnDays}

\* The script passes try_seconds=True; False is the other argument
\* get_all_solana_data accepts.
Init ==
    /\ pc = "main"
    /\ try_seconds \in BOOLEAN
    /\ frequency = "none"
    /\ success = FALSE
    /\ td = Idle
    /\ dump_outcome = "not_called"
    /\ disk = NoDisk
    /\ actual_dir = <<>>
    /\ csv_files = <<>>
    /\ dataframes = <<>>
    /\ combined_df = NoTable
    /\ result = None
    /\ df = None
    /\ output = [f \in Frequencies |-> Untouched]
    /\ exc = "none"
    /\ attempts = <<>>
    /\ merges = <<>>

merger_vars == <<actual_dir, csv_files, dataframes, combined_df, result, output>>

\* An exception no handler catches: it leaves process_downloaded_data,
\* get_all_solana_data and the script; the interpreter prints the traceback
\* and exits with a non-zero status.
Crash(e) == pc' = "crashed" /\ exc' = e

\* ----------------------------------------------------- the entry point
\* df = get_all_solana_data(try_seconds=True)
Main_Call ==
    /\ pc = "main"
    /\ pc' = "g_entry"
    /\ UNCHANGED <<try_seconds, frequency, success, td, dump_outcome, disk, df, exc, attempts, merges>>
    /\ UNCHANGED merger_vars

\* if df is not None: ... else: ...; the closing messages
Main_Report ==
    /\ pc = "main_report"
    /\ pc' = "done"
    /\ UNCHANGED <<try_seconds, frequency, success, td, dump_outcome, disk, df, exc, attempts, merges>>
    /\ UNCHANGED merger_vars

\* ------------------------------------------------- get_all_solana_data
\* success = try_download_resolution(f): control enters the adapter
CallDownload(f) ==
    /\ pc' = "td_setup"
    /\ frequency' = f
    /\ attempts' = Append(attempts, [frequency |-> f, returned |-> "running"])
    /\ td' = Idle
    /\ dump_outcome' = "not_called"
    /\ UNCHANGED <<try_seconds, success, disk, df, exc, merges>>
    /\ UNCHANGED merger_vars

\* return process_downloaded_data(f): control enters the merger
CallProcess(f) ==
    /\ pc' = "p_locate"
    /\ frequency' = f
    /\ merges' = Append(merges, f)
    /\ td' = Idle
    /\ UNCHANGED <<try_seconds, success, dump_outcome, disk, df, exc, attempts>>
    /\ UNCHANGED merger_vars

\* if try_seconds: success = try_download_resolution("1s")
G_TrySeconds == pc = "g_entry" /\ try_seconds /\ CallDownload("1s")

\* try_seconds is false: success = try_download_resolution("1m")
G_SkipSeconds == pc = "g_entry" /\ ~try_seconds /\ CallDownload("1m")

\* G_SecondsOk with the merger called for the other resolution.
G_SecondsOk_OtherResolution ==
    pc = "g_check" /\ frequency = "1s" /\ success /\ CallProcess("1m")

\* if success: return process_downloaded_data("1s")
G_SecondsOk == pc = "g_check" /\ frequency = "1s" /\ success /\ CallProcess("1s")

\* G_SecondsFallback with the fine resolution tried again.
G_SecondsFallback_Retry ==
    pc = "g_check" /\ frequency = "1s" /\ ~success /\ CallDownload("1s")

\* else: fall through to success = try_download_resolution("1m")
G_SecondsFallback == pc = "g_check" /\ frequency = "1s" /\ ~success /\ CallDownload("1m")

\* if success: return process_downloaded_data("1m")
G_MinutesOk == pc = "g_check" /\ frequency = "1m" /\ success /\ CallProcess("1m")

\* else: return None
G_MinutesFail ==
    /\ pc = "g_check" /\ frequency = "1m" /\ ~success
    /\ df' = None
    /\ pc' = "main_report"
    /\ td' = Idle
    /\ UNCHANGED <<try_seconds, frequency, success, dump_outcome, disk, exc, attempts, merges>>
    /\ UNCHANGED merger_vars

\* The merger returned: get_all_solana_data returns that value to the script.
G_Return ==
    /\ pc = "g_return"
    /\ df' = result
    /\ pc' = "main_report"
    /\ UNCHANGED <<try_seconds, frequency, success, td, dump_outcome, disk, exc, attempts, merges>>
    /\ UNCHANGED merger_vars

\* --------------------------------------------- try_download_resolution
\* The adapter returns v to get_all_solana_data.
ReturnDownload(v) ==
    /\ success' = v
    /\ pc' = "g_check"
    /\ attempts' = [attempts EXCEPT ![Len(attempts)].returned = IF v THEN "True" ELSE "False"]
    /\ td' = [Idle EXCEPT !.warned = td.warned, !.min_date_failed = td.min_date_failed]

\* A statement before dump_data raises (os.makedirs, the BinanceDataDumper
\* constructor, or the date arithmetic on a min_date that is no date):
\* except Exception -> return False
TD_SetupRaises ==
    /\ pc = "td_setup"
    /\ ReturnDownload(FALSE)
    /\ UNCHANGED <<try_seconds, frequency, dump_outcome, disk, df, exc, merges>>
    /\ UNCHANGED merger_vars

\* start_date when get_min_start_date_for_ticker raises (the bare except)
\* or returns min_date
StartDate(failed, min_date) == IF failed THEN FallbackDate ELSE min_date

\* The start date, end_date, total_days and the 1s advisory; dump_data is
\* next whether or not the advisory was printed.
TD_Dates ==
    /\ pc = "td_setup"
    /\ \E today \in Todays, failed \in BOOLEAN :
         \E min_date \in (IF failed THEN {0} ELSE MinDates(today)) :
            LET start_date == StartDate(failed, min_date)
                total_days == today - start_date
            IN  td' = [start_date |-> start_date, end_date |-> today,
                       total_days |-> total_days,
                       warned |-> (frequency = "1s" /\ total_days > WarnDays),
                       min_date_failed |-> failed]
    /\ pc' = "td_dump"
    /\ UNCHANGED <<try_seconds, frequency, success, dump_outcome, disk, df, exc, attempts, merges>>
    /\ UNCHANGED merger_vars

\* data_dumper.dump_data(...) returns: the files are on disk; return True
TD_DumpOk ==
    /\ pc = "td_dump"
    /\ disk' \in Disks(frequency)
    /\ dump_outcome' = "returned"
    /\ ReturnDownload(TRUE)
    /\ UNCHANGED <<try_seconds, frequency, df, exc, merges>>
    /\ UNCHANGED merger_vars

\* TD_DumpRaises without the except clause: the exception leaves the adapter.
TD_DumpRaises_Propagates ==
    /\ pc = "td_dump"
    /\ dump_outcome' = "raised"
    /\ Crash("Exception")
    /\ UNCHANGED <<try_seconds, frequency, success, td, disk, df, attempts, merges>>
    /\ UNCHANGED merger_vars

\* data_dumper.dump_data(...) raises: except Exception -> return False
TD_DumpRaises ==
    /\ pc = "td_dump"
    /\ dump_outcome' = "raised"
    /\ ReturnDownload(FALSE)
    /\ UNCHANGED <<try_seconds, frequency, disk, df, exc, merges>>
    /\ UNCHANGED merger_vars

\* ------------------------------------------- process_downloaded_data
\* return None
ReturnNone == result' = None /\ pc' = "g_return" /\ exc' = exc

\* The file locator: actual_dir, then every .csv under it.
P_Locate ==
    /\ pc = "p_locate"
    /\ actual_dir' = LocateDir(disk, frequency)
    /\ csv_files' = CollectCsv(disk, Walk(disk, actual_dir'))
    /\ IF csv_files' = <<>>
       THEN ReturnNone
       ELSE pc' = "p_load" /\ UNCHANGED <<result, exc>>
    /\ UNCHANGED <<try_seconds, frequency, success, td, dump_outcome, disk, df, attempts, merges>>
    /\ UNCHANGED <<dataframes, combined_df, output>>

\* P_Load without the `if not dataframes` check.
P_Load_NoCheck ==
    /\ pc = "p_load"
    /\ dataframes' = LoadAll(disk, SortedPaths(Range(csv_files)))
    /\ pc' = "p_concat"
    /\ UNCHANGED <<try_seconds, frequency, success, td, dump_outcome, disk, df, exc, attempts, merges>>
    /\ UNCHANGED <<actual_dir, csv_files, combined_df, result, output>>

\* for file_path in sorted(csv_files): try read_csv / except: report
P_Load ==
    /\ pc = "p_load"
    /\ dataframes' = LoadAll(disk, SortedPaths(Range(csv_files)))
    /\ IF dataframes' = <<>>
       THEN ReturnNone
       ELSE pc' = "p_concat" /\ UNCHANGED <<result, exc>>
    /\ UNCHANGED <<try_seconds, frequency, success, td, dump_outcome, disk, df, attempts, merges>>
    /\ UNCHANGED <<actual_dir, csv_files, combined_df, output>>

\* combined_df = pd.concat(dataframes, ignore_index=True)
P_Concat ==
    /\ pc = "p_concat"
    /\ combined_df' = Concat(dataframes)
    /\ pc' = "p_times"
    /\ UNCHANGED <<try_seconds, frequency, success, td, dump_outcome, disk, df, exc, attempts, merges>>
    /\ UNCHANGED <<actual_dir, csv_files, dataframes, result, output>>

\* The two pd.to_datetime lines; neither is inside a try.
P_Timestamps ==
    /\ pc = "p_times"
    /\ LET e1 == DatetimeError(combined_df, "Open time")
           e2 == DatetimeError(combined_df, "Close time")
       IN  IF e1 # "none" THEN Crash(e1) /\ UNCHANGED combined_df
           ELSE IF e2 # "none"
           THEN Crash(e2) /\ combined_df' = ToDatetime(combined_df, "Open time")
           ELSE /\ combined_df' = ToDatetime(ToDatetime(combined_df, "Open time"), "Close time")
                /\ pc' = "p_sort"
                /\ exc' = exc
    /\ UNCHANGED <<try_seconds, frequency, success, td, dump_outcome, disk, df, attempts, merges>>
    /\ UNCHANGED <<actual_dir, csv_files, dataframes, result, output>>

\* sort_values('Open time').reset_index(drop=True), then drop_duplicates
P_Sort ==
    /\ pc = "p_sort"
    /\ \E sorted \in SortOutcomes(combined_df) : combined_df' = DropDuplicates(sorted)
    /\ pc' = "p_prices"
    /\ UNCHANGED <<try_seconds, frequency, success, td, dump_outcome, disk, df, exc, attempts, merges>>
    /\ UNCHANGED <<actual_dir, csv_files, dataframes, result, output>>

\* The pd.to_numeric loop and the statistics; the subscripts are not inside
\* a try.
P_Prices ==
    /\ pc = "p_prices"
    /\ LET r == ConvertPrices(combined_df, 1)
       IN  /\ combined_df' = r.df
           /\ IF r.err # "none" THEN Crash(r.err) ELSE pc' = "p_save" /\ exc' = exc
    /\ UNCHANGED <<try_seconds, frequency, success, td, dump_outcome, disk, df, attempts, merges>>
    /\ UNCHANGED <<actual_dir, csv_files, dataframes, result, output>>

\* combined_df.to_csv(output_file, index=False) succeeds; return combined_df
P_Save ==
    /\ pc = "p_save"
    /\ output' = [output EXCEPT ![frequency] = [state |-> "written", rows |-> combined_df.rows]]
    /\ result' = Some(combined_df)
    /\ pc' = "g_return"
    /\ UNCHANGED <<try_seconds, frequency, success, td, dump_outcome, disk, df, exc, attempts, merges>>
    /\ UNCHANGED <<actual_dir, csv_files, dataframes, combined_df>>

\* to_csv raises OSError (not inside a try): the file could not be opened
\* (it is as it was) or was opened and not completed (it is truncated).
P_SaveRaises ==
    /\ pc = "p_save"
    /\ \E opened \in BOOLEAN :
         output' = IF opened
                   THEN [output EXCEPT ![frequency] = [state |-> "truncated", rows |-> <<>>]]
                   ELSE output
    /\ Crash("OSError")
    /\ UNCHANGED <<try_seconds, frequency, success, td, dump_outcome, disk, df, attempts, merges>>
    /\ UNCHANGED <<actual_dir, csv_files, dataframes, combined_df, result>>

Next ==
    \/ Main_Call \/ Main_Report
    \/ G_TrySeconds \/ G_SkipSeconds
    \/ G_SecondsOk \/ G_SecondsFallback \/ G_MinutesOk \/ G_MinutesFail \/ G_Return
    \/ TD_SetupRaises \/ TD_Dates \/ TD_DumpOk \/ TD_DumpRaises
    \/ P_Locate \/ P_Load \/ P_Concat \/ P_Timestamps \/ P_Sort \/ P_Prices
    \/ P_Save \/ P_SaveRaises

Spec == Init /\ [][Next]_vars

\* =================================================================== claims
Returned == pc \in {"main_report", "done"}
FrequenciesOf(as) == [i \in 1..Len(as) |-> as[i].frequency]

\* C1: in a run of get_all_solana_data(try_seconds=True) each resolution is
\* attempted at most once (so at most two download attempts), the first
\* attempt is the 1s one, and once a failed 1s attempt has been acted on the
\* 1m download has been attempted, exactly once, with no further 1s attempt.
C1_FallbackOnce ==
    try_seconds =>
        /\ Len(attempts) <= 2
        /\ \A i, j \in 1..Len(attempts) :
              i # j => attempts[i].frequency # attempts[j].frequency
        /\ attempts # <<>> => attempts[1].frequency = "1s"
        /\ (/\ attempts # <<>>
            /\ attempts[1].returned = "False"
            /\ ~(pc = "g_check" /\ Len(attempts) = 1))
           => FrequenciesOf(attempts) = <<"1s", "1m">>

\* C1 witness: the run ended after the 1s attempt failed and the 1m attempt
\* was made.
C1_Witness ==
    /\ try_seconds
    /\ pc = "done"
    /\ Len(attempts) = 2
    /\ attempts[1] = [frequency |-> "1s", returned |-> "False"]
    /\ attempts[2].frequency = "1m"

\* C8: the merger is invoked at most once, only when the latest download
\* attempt was for the same resolution and returned True; the value it
\* returns is the value get_all_solana_data returns; after a 1s download
\* that succeeded there is no 1m attempt, whatever the merger returns.
C8_MergeOnceAfterSuccess ==
    /\ Len(merges) <= 1
    /\ merges # <<>> =>
          /\ attempts # <<>>
          /\ attempts[Len(attempts)] = [frequency |-> merges[1], returned |-> "True"]
          /\ Returned => df = result
    /\ \A i \in 1..Len(attempts) :
          (attempts[i].frequency = "1s" /\ attempts[i].returned = "True")
             => Len(attempts) = i

\* C8 witness: the 1s download succeeded, the merger returned the absence
\* value, and the run ended without a 1m attempt.
C8_Witness ==
    /\ pc = "done"
    /\ merges = <<"1s">>
    /\ result = None
    /\ df = None
    /\ FrequenciesOf(attempts) = <<"1s">>

\* C10: no exception leaves try_download_resolution (the script can only
\* die inside the merger); it returns True exactly when dump_data returned;
\* when the earliest-date query raised, the start date is the fallback date
\* 2020-08-11 and dump_data was still called; the 1s advisory, printed
\* exactly when the span exceeds 30 days, does not keep dump_data from
\* being called.
C10_AdapterNeverRaises ==
    /\ success \in BOOLEAN
    /\ pc = "crashed" => merges # <<>>
    /\ pc = "td_dump" =>
          /\ td.min_date_failed => td.start_date = FallbackDate
          /\ td.warned <=> (frequency = "1s" /\ td.end_date - td.start_date > WarnDays)
    /\ pc = "g_check" =>
          /\ success <=> dump_outcome = "returned"
          /\ (td.min_date_failed \/ td.warned) => dump_outcome # "not_called"

\* C10 witness: the query raised, the advisory was printed, dump_data
\* returned and the adapter returned True.
C10_Witness ==
    /\ pc = "g_check"
    /\ td.min_date_failed
    /\ td.warned
    /\ success

\* ------------------------------------------------------ the merger's claims
IsCsv(p) == EndsWithCsv(Basename(p))
\* The merger has been called and is past the named steps.
Past(steps) == merges # <<>> /\ pc \notin steps
MergerReturned == merges # <<>> /\ pc \in {"g_return", "main_report", "done"}
\* The located files that load.
Loadable == {p \in Range(csv_files) : disk.files[p].ok}
OpenTime(row) == row.cells["Open time"]
\* a <= b for open times, the missing timestamp last
TimeLeq(a, b) == b.k = "nat" \/ (a.k = "ts" /\ b.k = "ts" /\ a.v <= b.v)
SortedDistinct(rows) ==
    \A i, j \in 1..Len(rows) :
        i < j => /\ OpenTime(rows[i]) # OpenTime(rows[j])
                 /\ TimeLeq(OpenTime(rows[i]), OpenTime(rows[j]))

\* C2: in the dataset process_downloaded_data returns, and in the file it
\* writes, the open times are pairwise distinct and in non-decreasing order.
C2_OpenTimesSortedDistinct ==
    /\ result.some => SortedDistinct(result.rows)
    /\ \A f \in Frequencies :
          output[f].state = "written" => SortedDistinct(output[f].rows)

\* C2 witness: a dataset of two rows or more was returned from an input
\* that had rows out of order and rows of equal open time.
C2_Witness ==
    /\ result.some
    /\ Len(result.rows) >= 2
    /\ LET in == Concat(dataframes).rows
       IN  /\ Len(in) > Len(result.rows)
           /\ \E i, j \in 1..Len(in) :
                 /\ i < j
                 /\ OpenTime(in[i]).k = "num" /\ OpenTime(in[j]).k = "num"
                 /\ OpenTime(in[i]).v > OpenTime(in[j]).v

\* C3: the returned dataset holds exactly one row for each open time of the
\* loaded files, and it is the row of the first file, in path order, that
\* holds that open time.
C3_FirstFileWins ==
    result.some =>
        LET in == Concat(dataframes).rows
        IN  \A i \in 1..Len(in) :
               LET key == ToDatetimeCell(OpenTime(in[i]))
                   holders == {in[j].src : j \in {k \in 1..Len(in) : OpenTime(in[k]) = OpenTime(in[i])}}
                   first == CHOOSE q \in holders : \A r \in holders \ {q} : PathLess(q, r)
                   kept == {k \in 1..Len(result.rows) : OpenTime(result.rows[k]) = key}
               IN  /\ Cardinality(kept) = 1
                   /\ \A k \in kept : result.rows[k].src = first

\* C4: no exception leaves get_all_solana_data; the script reaches its
\* closing message and exits normally.
C4_NoErrorFatal == pc # "crashed" /\ exc = "none"

\* C5: when no file is located, or none of the located files loads, the
\* merger returns the absence value; whenever it returns the absence value
\* no output file has been created or overwritten; an output file is
\* written only by a merger call that returns the dataset written.
C5_NoInputNoOutput ==
    /\ (Past({"p_locate", "p_load"}) /\ Loadable = {}) =>
          MergerReturned /\ result = None
    /\ (MergerReturned /\ result = None) =>
          \A f \in Frequencies : output[f] = Untouched
    /\ \A f \in Frequencies :
          output[f].state = "written" =>
             /\ MergerReturned /\ merges = <<f>>
             /\ result.some /\ result.rows = output[f].rows

\* C5 witness: files were located, none loaded, the merger returned the
\* absence value and the run ended.
C5_Witness ==
    /\ pc = "done"
    /\ merges # <<>>
    /\ csv_files # <<>>
    /\ Loadable = {}
    /\ result = None

\* C6: the tables loaded are those of exactly the located files that load,
\* in path order, whichever files fail; the combined table holds exactly
\* their rows, each once, in that order, with the cells read from the file.
C6_LoadErrorsSkipped ==
    /\ (Past({"p_locate", "p_load"}) /\ Loadable # {}) =>
          /\ pc # "g_return" \/ result.some
          /\ [i \in 1..Len(dataframes) |-> dataframes[i].path] = SortedPaths(Loadable)
    /\ pc = "p_times" =>
          LET rows == combined_df.rows
          IN  /\ {<<rows[i].src, rows[i].line>> : i \in 1..Len(rows)}
                    = UNION {{<<p, n>> : n \in 1..Len(disk.files[p].rows)} : p \in Loadable}
              /\ \A i, j \in 1..Len(rows) :
                    i < j => \/ PathLess(rows[i].src, rows[j].src)
                             \/ rows[i].src = rows[j].src /\ rows[i].line < rows[j].line
              /\ \A i \in 1..Len(rows) :
                    \A c \in disk.files[rows[i].src].cols :
                       rows[i].cells[c] = disk.files[rows[i].src].rows[rows[i].line][c]

\* C6 witness: the tables are combined although a located file failed to
\* load, and a file after it in path order is among the tables loaded.
C6_Witness ==
    /\ pc = "p_times"
    /\ \E p, q \in Range(csv_files) :
          /\ PathLess(p, q)
          /\ ~disk.files[p].ok
          /\ disk.files[q].ok
          /\ \E i \in 1..Len(combined_df.rows) : combined_df.rows[i].src = q

\* C7: every .csv file under the daily-klines or the monthly-klines
\* directory of the download root is among the files located for loading.
C7_LoadsDailyAndMonthly ==
    Past({"p_locate"}) =>
        \A p \in DOMAIN disk.files :
           (IsCsv(p) /\ (IsPrefix(DailyDir(merges[1]), p) \/ IsPrefix(MonthlyDir(merges[1]), p)))
              => p \in Range(csv_files)

\* C9: the search directory is the daily directory if it exists, else the
\* monthly directory if it exists, else the first directory of the scan of
\* the download root that holds a .csv file; the files collected are
\* exactly the .csv files under that directory; when no directory
\* qualifies, or none is collected, the merger returns the absence value.
C9_LocatorFirstMatch ==
    Past({"p_locate"}) =>
        LET f == merges[1]
            w == Walk(disk, data_dir(f))
            holds(d) == \E p \in DOMAIN disk.files : Parent(p) = d /\ IsCsv(p)
            daily == Exists(disk, DailyDir(f))
            monthly == Exists(disk, MonthlyDir(f))
            scanned == \E i \in 1..Len(w) : holds(w[i])
        IN  /\ daily => actual_dir = DailyDir(f)
            /\ (~daily /\ monthly) => actual_dir = MonthlyDir(f)
            /\ (~daily /\ ~monthly /\ scanned) =>
                  \E i \in 1..Len(w) :
                     /\ actual_dir = w[i]
                     /\ holds(w[i])
                     /\ \A j \in 1..(i - 1) : ~holds(w[j])
            /\ (daily \/ monthly \/ scanned) =>
                  /\ Range(csv_files) = {p \in DOMAIN disk.files : IsCsv(p) /\ IsPrefix(actual_dir, p)}
                  /\ Len(csv_files) = Cardinality(Range(csv_files))
            /\ ~(daily \/ monthly \/ scanned) => csv_files = <<>>
            /\ csv_files = <<>> => MergerReturned /\ result = None

\* C9 witness: neither the daily nor the monthly directory exists, two
\* directories of the download root hold a .csv file, and the one chosen
\* is not the first in name order (the scan met it first).
C9_Witness ==
    /\ Past({"p_locate"})
    /\ ~Exists(disk, DailyDir(merges[1]))
    /\ ~Exists(disk, MonthlyDir(merges[1]))
    /\ actual_dir = data_dir(merges[1]) \o <<"spot">>
    /\ data_dir(merges[1]) \o <<"extra", "a.csv">> \in DOMAIN disk.files
    /\ csv_files = <<data_dir(merges[1]) \o <<"spot", "b.csv">>>>
=============================================================================
